---- MODULE Spec2Model ----
(***************************************************************************)
(* Model of the dataset generator: the data models and their flattening    *)
(* (src/models/data_models.py), the indicator and merge step               *)
(* (src/data_processor.py, src/utils/indicators.py), the CSV sink          *)
(* (src/data_storage.py), the exchange adapter (src/exchange_service.py)   *)
(* and the collection run with its scheduling loop (src/main.py).          *)
(*                                                                         *)
(* Python values are modelled as follows.                                  *)
(*   float          a record [tag, num, den]: an exact rational num/den in *)
(*                  lowest terms (tag "float"), or NaN (tag "nan"); the    *)
(*                  rounding of binary doubles is not modelled             *)
(*   None           in a float field: the record None (tag "None")         *)
(*   Optional[X]    for an object X: a sequence of length 0 (None) or 1    *)
(*   dict           a record [raised, keys, val]: keys in insertion order, *)
(*                  val the mapping; raised names the exception when the   *)
(*                  function that builds the dict raised instead           *)
(*   list           a sequence                                             *)
(***************************************************************************)
EXTENDS Integers, Sequences, FiniteSets, TLC

VARIABLES
    symbols,          \* DataCollector.symbols (config.SYMBOLS)
    timeframes,       \* DataCollector.timeframes (config.TIMEFRAMES)
    pc,               \* position of the running call
    si,               \* index of the symbol loop of collect_data
    ti,               \* index of the timeframe loop of collect_data
    all_market_data,  \* collect_data's accumulated list of MarketData
    fetch_log,        \* history: what each fetch of this run returned
    orderbook_log,    \* history: what each order-book fetch of this run returned
    handed,           \* history: the list collect_data handed to the sink
    rows_given,       \* history: how many rows the last call of the sink was given
    result,           \* return value of the last finished call
    file,             \* the dataset file: a sequence of lines, <<>> when absent
    md,               \* the MarketData object to_dict is called on
    data,             \* what the calls of to_dict returned, one element per call
    series,           \* the candle list a DataProcessor method is called with
    returned          \* what that method returned: a list

vars == <<symbols, timeframes, pc, si, ti, all_market_data, fetch_log,
          orderbook_log, handed, rows_given, result, file, md, data,
          series, returned>>

(***************************************************************************)
(* Bounds of the model.                                                    *)
(***************************************************************************)
MaxCandles == 2      \* longest candle series a fetch returns
MaxLevels == 2       \* deepest side of an order book given to to_dict
MaxBatch == 2        \* longest list a caller hands to the sink directly
MaxFileRows == 2     \* callers of the sink stop once the file has more data rows
MaxSeries == 15      \* longest candle series given to the DataProcessor directly
MaxCalls == 2        \* calls of to_dict on one record

(***************************************************************************)
(* Floats.                                                                 *)
(***************************************************************************)
Abs(n) == IF n < 0 THEN -n ELSE n

RECURSIVE GCD(_, _)
GCD(a, b) == IF b = 0 THEN a ELSE GCD(b, a % b)

Float(n, d) ==
    LET s == IF d < 0 THEN -1 ELSE 1
        g == GCD(Abs(n), Abs(d))
    IN  [tag |-> "float", num |-> (s * n) \div g, den |-> (s * d) \div g]

None == [tag |-> "None", num |-> 0, den |-> 1]
NaN == [tag |-> "nan", num |-> 0, den |-> 1]

IsNumber(x) == x.tag \in {"float", "value"}
IsNull(x) == x.tag \in {"None", "nan"}
IsZero(x) == x.tag = "float" /\ x.num = 0

FloatAdd(a, b) == Float(a.num * b.den + b.num * a.den, a.den * b.den)
FloatSub(a, b) == Float(a.num * b.den - b.num * a.den, a.den * b.den)
FloatMul(a, b) == Float(a.num * b.num, a.den * b.den)
\* a / b for b # 0; Python raises ZeroDivisionError for b = 0, which the caller models
FloatDiv(a, b) == Float(a.num * b.den, a.den * b.num)

(***************************************************************************)
(* Dicts.                                                                  *)
(***************************************************************************)
EmptyDict == [raised |-> "", keys |-> <<>>, val |-> <<>>]
Raise(e) == [raised |-> e, keys |-> <<>>, val |-> <<>>]

Range(s) == {s[i] : i \in DOMAIN s}

\* d[k] = v
DictSet(d, k, v) ==
    IF k \in Range(d.keys)
    THEN [d EXCEPT !.val = [x \in DOMAIN d.val |-> IF d.keys[x] = k THEN v ELSE d.val[x]]]
    ELSE [d EXCEPT !.keys = Append(d.keys, k), !.val = Append(d.val, v)]

HasKey(d, k) == k \in Range(d.keys)
DictGet(d, k) == d.val[CHOOSE i \in DOMAIN d.keys : d.keys[i] = k]

(***************************************************************************)
(* Data models.                                                            *)
(***************************************************************************)
\* datetime.fromtimestamp(timestamp / 1000): whole seconds and microseconds
fromtimestamp_ms(timestamp) ==
    [sec |-> timestamp \div 1000, usec |-> (timestamp % 1000) * 1000]

OHLCV(timestamp, open, high, low, close, volume, symbol, timeframe) ==
    [timestamp |-> timestamp, datetime |-> fromtimestamp_ms(timestamp),
     open |-> open, high |-> high, low |-> low, close |-> close,
     volume |-> volume, symbol |-> symbol, timeframe |-> timeframe]

OrderBookLevel(price, amount) == [price |-> price, amount |-> amount]

OrderBook(timestamp, symbol, bids, asks) ==
    [timestamp |-> timestamp, datetime |-> fromtimestamp_ms(timestamp),
     symbol |-> symbol, bids |-> bids, asks |-> asks]

\* the fields of TechnicalIndicators in declaration order: what .dict() iterates
TechnicalIndicatorsFields ==
    <<"symbol", "timeframe", "timestamp", "datetime",
      "sma_20", "sma_50", "sma_200", "ema_12", "ema_26",
      "rsi_14", "macd", "macd_signal", "macd_hist",
      "bb_upper", "bb_middle", "bb_lower", "atr_14", "obv">>

\* TechnicalIndicators(symbol=, timeframe=, timestamp=, datetime=): every
\* indicator field takes its default, None
TechnicalIndicators(symbol, timeframe, timestamp, datetime) ==
    [symbol |-> symbol, timeframe |-> timeframe, timestamp |-> timestamp,
     datetime |-> datetime,
     sma_20 |-> None, sma_50 |-> None, sma_200 |-> None,
     ema_12 |-> None, ema_26 |-> None,
     rsi_14 |-> None, macd |-> None, macd_signal |-> None, macd_hist |-> None,
     bb_upper |-> None, bb_middle |-> None, bb_lower |-> None,
     atr_14 |-> None, obv |-> None]

MarketData(ohlcv, indicators, order_book_snapshot) ==
    [ohlcv |-> ohlcv, indicators |-> indicators,
     order_book_snapshot |-> order_book_snapshot]

(***************************************************************************)
(* MarketData.to_dict                                                      *)
(***************************************************************************)
\* lines 72-82: the dict literal with the candle columns
to_dict_ohlcv(self) ==
    [raised |-> "",
     keys |-> <<"timestamp", "datetime", "symbol", "timeframe",
                "open", "high", "low", "close", "volume">>,
     val |-> <<self.ohlcv.timestamp, self.ohlcv.datetime, self.ohlcv.symbol,
               self.ohlcv.timeframe, self.ohlcv.open, self.ohlcv.high,
               self.ohlcv.low, self.ohlcv.close, self.ohlcv.volume>>]

\* a flattening that writes 0.0 where the indicator is None
RECURSIVE to_dict_indicators_zero_for_none(_, _, _)
to_dict_indicators_zero_for_none(self, d, i) ==
    IF i > Len(TechnicalIndicatorsFields) THEN d
    ELSE LET field == TechnicalIndicatorsFields[i]
             value == self.indicators[field]
         IN  IF field \notin {"symbol", "timeframe", "timestamp", "datetime"}
             THEN to_dict_indicators_zero_for_none(self,
                    DictSet(d, field, IF value.tag = "None" THEN Float(0, 1) ELSE value),
                    i + 1)
             ELSE to_dict_indicators_zero_for_none(self, d, i + 1)

\* lines 85-87: the loop over self.indicators.dict().items(), from item i on
RECURSIVE to_dict_indicators(_, _, _)
to_dict_indicators(self, d, i) ==
    IF i > Len(TechnicalIndicatorsFields) THEN d
    ELSE LET field == TechnicalIndicatorsFields[i]
         IN  IF field \notin {"symbol", "timeframe", "timestamp", "datetime"}
             THEN to_dict_indicators(self, DictSet(d, field, self.indicators[field]), i + 1)
             ELSE to_dict_indicators(self, d, i + 1)

\* a flattening that divides the spread by the best ask price
to_dict_spread_by_ask(ob, d) ==
    IF ob.asks # <<>> /\ ob.bids # <<>>
    THEN LET d5 == DictSet(d, "spread", FloatSub(ob.asks[1].price, ob.bids[1].price))
         IN  IF IsZero(ob.bids[1].price)
             THEN Raise("ZeroDivisionError")
             ELSE DictSet(d5, "spread_percent",
                          FloatMul(FloatDiv(DictGet(d5, "spread"), ob.asks[1].price),
                                   Float(100, 1)))
    ELSE d

\* lines 96-99: spread and spread_percent; the division raises on a zero price
to_dict_spread(ob, d) ==
    IF ob.asks # <<>> /\ ob.bids # <<>>
    THEN LET d5 == DictSet(d, "spread", FloatSub(ob.asks[1].price, ob.bids[1].price))
         IN  IF IsZero(ob.bids[1].price)
             THEN Raise("ZeroDivisionError")
             ELSE DictSet(d5, "spread_percent",
                          FloatMul(FloatDiv(DictGet(d5, "spread"), ob.bids[1].price),
                                   Float(100, 1)))
    ELSE d

\* a flattening that leaves out the best_* columns of an empty side
to_dict_order_book_omitting(self, d) ==
    IF self.order_book_snapshot = <<>> THEN d
    ELSE
    LET ob == self.order_book_snapshot[1]
        d2 == IF ob.bids # <<>>
              THEN DictSet(DictSet(d, "best_bid_price", ob.bids[1].price),
                           "best_bid_amount", ob.bids[1].amount)
              ELSE d
        d4 == IF ob.asks # <<>>
              THEN DictSet(DictSet(d2, "best_ask_price", ob.asks[1].price),
                           "best_ask_amount", ob.asks[1].amount)
              ELSE d2
    IN  to_dict_spread(ob, d4)

\* lines 90-94: the best bid and ask columns
to_dict_order_book(self, d) ==
    IF self.order_book_snapshot = <<>> THEN d
    ELSE
    LET ob == self.order_book_snapshot[1]
        d1 == DictSet(d, "best_bid_price",
                      IF ob.bids # <<>> THEN ob.bids[1].price ELSE None)
        d2 == DictSet(d1, "best_bid_amount",
                      IF ob.bids # <<>> THEN ob.bids[1].amount ELSE None)
        d3 == DictSet(d2, "best_ask_price",
                      IF ob.asks # <<>> THEN ob.asks[1].price ELSE None)
        d4 == DictSet(d3, "best_ask_amount",
                      IF ob.asks # <<>> THEN ob.asks[1].amount ELSE None)
    IN  to_dict_spread(ob, d4)

\* a to_dict that consumes the snapshot it has flattened
to_dict_self_dropping_snapshot(self) == [self EXCEPT !.order_book_snapshot = <<>>]

\* the object after a call of to_dict: the method reads self.ohlcv,
\* self.indicators.dict() and self.order_book_snapshot and assigns none of them
to_dict_self(self) == self

to_dict(self) ==
    to_dict_order_book(self, to_dict_indicators(self, to_dict_ohlcv(self), 1))

(***************************************************************************)
(* Indicators (src/utils/indicators.py).  The series come from the ta      *)
(* library, which is not part of the repository; the model follows its     *)
(* behaviour with fillna=False: a rolling or exponentially weighted value  *)
(* is NaN until `window` observations exist, and average_true_range        *)
(* indexes position window-1 of an array of the series' length, which      *)
(* raises IndexError on a shorter series.  A double the model does not     *)
(* compute (a square root, a Wilder recurrence) is the record Computed.    *)
(***************************************************************************)
Computed(i) == [tag |-> "value", num |-> i, den |-> 1]

RECURSIVE InsertByTimestamp(_, _)
InsertByTimestamp(sorted, row) ==
    IF sorted = <<>> THEN <<row>>
    ELSE IF sorted[Len(sorted)].timestamp <= row.timestamp
         THEN Append(sorted, row)
         ELSE Append(InsertByTimestamp(SubSeq(sorted, 1, Len(sorted) - 1), row),
                     sorted[Len(sorted)])

\* df.sort_values('timestamp'), rows with equal timestamps keeping their order
RECURSIVE sort_values_timestamp(_)
sort_values_timestamp(rows) ==
    IF rows = <<>> THEN <<>>
    ELSE InsertByTimestamp(sort_values_timestamp(SubSeq(rows, 1, Len(rows) - 1)),
                           rows[Len(rows)])

\* DataProcessor.ohlcv_to_dataframe: one row per OHLCV.dict(), sorted by timestamp
ohlcv_to_dataframe(ohlcv_list) == sort_values_timestamp(ohlcv_list)

RECURSIVE SumClose(_, _, _)
SumClose(df, from, to) ==
    IF from > to THEN Float(0, 1)
    ELSE FloatAdd(df[from].close, SumClose(df, from + 1, to))

\* ta.trend.sma_indicator(close, window) at row i (1-based)
sma_indicator(df, window, i) ==
    IF i < window THEN NaN
    ELSE FloatDiv(SumClose(df, i - window + 1, i), Float(window, 1))

\* the exponentially weighted mean of rows 1..i, given the mean of rows
\* 1..k-1: row k starts the mean when there is none yet (NaN), and is blended
\* into it with weight 2 / (window + 1) otherwise
RECURSIVE EwmFrom(_, _, _, _, _)
EwmFrom(df, window, k, i, mean) ==
    IF IsNull(mean)
    THEN IF k = i THEN df[k].close
         ELSE EwmFrom(df, window, k + 1, i, df[k].close)
    ELSE LET blended == FloatAdd(FloatMul(Float(2, window + 1), df[k].close),
                                 FloatMul(Float(window - 1, window + 1), mean))
         IN  IF k = i THEN blended
             ELSE EwmFrom(df, window, k + 1, i, blended)

\* close.ewm(span=window, adjust=False).mean() at row i
EwmClose(df, window, i) == EwmFrom(df, window, 1, i, NaN)

\* ta.trend.ema_indicator(close, window) at row i: min_periods=window
ema_indicator(df, window, i) ==
    IF i < window THEN NaN ELSE EwmClose(df, window, i)

\* any other windowed series at row i: NaN until `window` observations exist
Windowed(window, i) == IF i < window THEN NaN ELSE Computed(i)

\* ta.volume.on_balance_volume(close, volume) at row i: the running sum of
\* -volume where close < close.shift(1), +volume elsewhere
RECURSIVE on_balance_volume(_, _)
on_balance_volume(df, i) ==
    LET signed == IF i > 1 /\ FloatSub(df[i].close, df[i - 1].close).num < 0
                  THEN FloatSub(Float(0, 1), df[i].volume)
                  ELSE df[i].volume
    IN  IF i = 1 THEN signed ELSE FloatAdd(on_balance_volume(df, i - 1), signed)

\* ta.volatility.average_true_range(high, low, close, window) at row i, for a
\* series of at least `window` rows: zero before the first full window
average_true_range(df, window, i) ==
    IF i < window THEN Float(0, 1) ELSE Computed(i)

\* lines 39-61: the columns assigned before the call of average_true_range
IndicatorColumnsBeforeATR ==
    {"sma_20", "sma_50", "sma_200", "ema_12", "ema_26", "macd", "macd_signal",
     "macd_hist", "rsi_14", "bb_upper", "bb_middle", "bb_lower"}

\* a try block that reaches its end on every series
calculate_indicators_columns_all(df) ==
    IndicatorColumnsBeforeATR \cup {"atr_14", "obv"}

\* lines 38-74: the columns the try block added before it ended or raised
calculate_indicators_columns(df) ==
    IF Len(df) < 14
    THEN IndicatorColumnsBeforeATR
    ELSE IndicatorColumnsBeforeATR \cup {"atr_14", "obv"}

calculate_indicators_value(df, col, i) ==
    CASE col = "sma_20" -> sma_indicator(df, 20, i)
      [] col = "sma_50" -> sma_indicator(df, 50, i)
      [] col = "sma_200" -> sma_indicator(df, 200, i)
      [] col = "ema_12" -> ema_indicator(df, 12, i)
      [] col = "ema_26" -> ema_indicator(df, 26, i)
      [] col = "macd" -> IF i < 26 THEN NaN
                         ELSE FloatSub(EwmClose(df, 12, i), EwmClose(df, 26, i))
      [] col = "macd_signal" -> Windowed(26 + 9 - 1, i)
      [] col = "macd_hist" -> Windowed(26 + 9 - 1, i)
      [] col = "rsi_14" -> Windowed(14, i)
      [] col = "bb_upper" -> Windowed(20, i)
      [] col = "bb_middle" -> sma_indicator(df, 20, i)
      [] col = "bb_lower" -> Windowed(20, i)
      [] col = "atr_14" -> average_true_range(df, 14, i)
      [] col = "obv" -> on_balance_volume(df, i)

\* calculate_indicators: the sorted frame with the indicator columns; a row is
\* [ohlcv |-> the candle's columns, ind |-> the indicator columns present]
calculate_indicators(ohlcv_df) ==
    IF ohlcv_df = <<>> THEN <<>>
    ELSE LET df == sort_values_timestamp(ohlcv_df)
             cols == calculate_indicators_columns(df)
         IN  [i \in 1..Len(df) |->
                [ohlcv |-> df[i],
                 ind |-> [c \in cols |-> calculate_indicators_value(df, c, i)]]]

IndicatorFields ==
    <<"sma_20", "sma_50", "sma_200", "ema_12", "ema_26",
      "rsi_14", "macd", "macd_signal", "macd_hist",
      "bb_upper", "bb_middle", "bb_lower", "atr_14", "obv">>

\* convert_to_technical_indicators(row) followed by TechnicalIndicators(**...):
\* a field that is no column of the row keeps its default, None
convert_to_technical_indicators(row) ==
    LET base == TechnicalIndicators(row.ohlcv.symbol, row.ohlcv.timeframe,
                                    row.ohlcv.timestamp, row.ohlcv.datetime)
    IN  [f \in DOMAIN base |->
            IF f \in Range(IndicatorFields) /\ f \in DOMAIN row.ind
            THEN row.ind[f] ELSE base[f]]

(***************************************************************************)
(* DataProcessor (src/data_processor.py).                                  *)
(***************************************************************************)
\* a conversion that keeps only the rows in which some indicator has a value
calculate_technical_indicators_dropna(ohlcv_list) ==
    IF ohlcv_list = <<>> THEN <<>>
    ELSE LET df_with_indicators == calculate_indicators(ohlcv_to_dataframe(ohlcv_list))
             kept == SelectSeq(df_with_indicators,
                        LAMBDA row : \E c \in DOMAIN row.ind : IsNumber(row.ind[c]))
         IN  [i \in 1..Len(kept) |-> convert_to_technical_indicators(kept[i])]

calculate_technical_indicators(ohlcv_list) ==
    IF ohlcv_list = <<>> THEN <<>>
    ELSE LET df_with_indicators == calculate_indicators(ohlcv_to_dataframe(ohlcv_list))
         IN  [i \in 1..Len(df_with_indicators) |->
                convert_to_technical_indicators(df_with_indicators[i])]

\* a merge that fills the indicator fields of a synthesized set with zeros
merge_data_zero_filled(ohlcv, indicators, orderbook) ==
    MarketData(ohlcv,
               IF indicators = <<>>
               THEN [f \in DOMAIN TechnicalIndicators(ohlcv.symbol, ohlcv.timeframe,
                                                      ohlcv.timestamp, ohlcv.datetime) |->
                        IF f \in {"symbol", "timeframe", "timestamp", "datetime"}
                        THEN ohlcv[f] ELSE Float(0, 1)]
               ELSE indicators[1],
               orderbook)

\* merge_data(ohlcv, indicators, orderbook); indicators and orderbook are Optional
merge_data(ohlcv, indicators, orderbook) ==
    MarketData(ohlcv,
               IF indicators = <<>>
               THEN TechnicalIndicators(ohlcv.symbol, ohlcv.timeframe,
                                        ohlcv.timestamp, ohlcv.datetime)
               ELSE indicators[1],
               orderbook)

\* indicators_dict.get(timestamp) for {indicator.timestamp: indicator for ...}:
\* the last indicator of the list with that timestamp, or None
indicators_dict_get(indicators_list, timestamp) ==
    LET hits == {i \in DOMAIN indicators_list : indicators_list[i].timestamp = timestamp}
    IN  IF hits = {} THEN <<>>
        ELSE <<indicators_list[CHOOSE i \in hits : \A j \in hits : j <= i]>>

process_ohlcv_with_indicators(ohlcv_list) ==
    IF ohlcv_list = <<>> THEN <<>>
    ELSE LET indicators_list == calculate_technical_indicators(ohlcv_list)
         IN  [i \in 1..Len(ohlcv_list) |->
                merge_data(ohlcv_list[i],
                           indicators_dict_get(indicators_list, ohlcv_list[i].timestamp),
                           <<>>)]

(***************************************************************************)
(* ExchangeService (src/exchange_service.py).  The exchange client's       *)
(* answer is an input: [ok |-> FALSE] when the ccxt call raises.           *)
(***************************************************************************)
\* fetch_historical_ohlcv(symbol, timeframe): response.rows is the list of
\* [timestamp, open, high, low, close, volume] items ccxt returned
fetch_historical_ohlcv(symbol, timeframe, response) ==
    IF ~response.ok THEN <<>>
    ELSE [i \in 1..Len(response.rows) |->
            LET item == response.rows[i]
            IN  OHLCV(item[1], item[2], item[3], item[4], item[5], item[6],
                      symbol, timeframe)]

\* fetch_orderbook(symbol): response.timestamp is Optional (ccxt reports None
\* when the exchange sends no timestamp, and timestamp / 1000 then raises)
fetch_orderbook(symbol, response) ==
    IF ~response.ok \/ response.timestamp = <<>> THEN <<>>
    ELSE <<OrderBook(response.timestamp[1], symbol,
                     [i \in 1..Len(response.bids) |->
                        OrderBookLevel(response.bids[i][1], response.bids[i][2])],
                     [i \in 1..Len(response.asks) |->
                        OrderBookLevel(response.asks[i][1], response.asks[i][2])])>>

(***************************************************************************)
(* DataStorage (src/data_storage.py).  A line of the file is               *)
(* [kind, cols, cells]: the header line lists the column names in cols,    *)
(* a data line holds one text cell per column of the frame it came from    *)
(* (cols records which).                                                   *)
(***************************************************************************)
FLOAT_PRECISION == 8

RECURSIVE Pow10(_)
Pow10(n) == IF n = 0 THEN 1 ELSE 10 * Pow10(n - 1)

\* the first `digits` decimals of rem/den (0 <= rem < den) and the remainder left
RECURSIVE Decimals(_, _, _)
Decimals(rem, den, digits) ==
    IF digits = 0 THEN <<0, rem>>
    ELSE LET rest == Decimals((rem * 10) % den, den, digits - 1)
         IN  <<((rem * 10) \div den) * Pow10(digits - 1) + rest[1], rest[2]>>

\* '%.8f' % x: sign, whole part and FLOAT_PRECISION decimals, rounded half up
float_format(x) ==
    LET a == Abs(x.num)
        scale == Pow10(FLOAT_PRECISION)
        dec == IF scale % x.den = 0
               THEN <<(a % x.den) * (scale \div x.den), 0>>
               ELSE Decimals(a % x.den, x.den, FLOAT_PRECISION)
        up == dec[2] # 0 /\ 2 * dec[2] >= x.den
        frac == IF up THEN dec[1] + 1 ELSE dec[1]
        carry == frac = scale
    IN  [kind |-> "float", neg |-> x.num < 0,
         whole |-> (a \div x.den) + (IF carry THEN 1 ELSE 0),
         frac |-> IF carry THEN 0 ELSE frac]

\* the text to_csv writes for one value of column col
to_csv_cell(col, v) ==
    IF col \in {"timestamp", "datetime", "symbol", "timeframe"}
    THEN [kind |-> "str", text |-> v]
    ELSE IF IsNull(v) THEN [kind |-> "str", text |-> ""]
         ELSE IF v.tag = "float" THEN float_format(v)
              ELSE [kind |-> "computed", text |-> v]

\* the columns of pd.DataFrame(data): every key in order of first appearance
RECURSIVE DataFrameColumns(_, _, _)
DataFrameColumns(dicts, i, cols) ==
    IF i > Len(dicts) THEN cols
    ELSE DataFrameColumns(dicts, i + 1,
            cols \o SelectSeq(dicts[i].keys, LAMBDA k : k \notin Range(cols)))

\* pd.DataFrame(data) for a list of dicts: a missing key becomes NaN
DataFrame(dicts) ==
    LET columns == DataFrameColumns(dicts, 1, <<>>)
    IN  [columns |-> columns,
         rows |-> [i \in 1..Len(dicts) |->
                     LET d == dicts[i]
                     IN  [c \in 1..Len(columns) |->
                            IF HasKey(d, columns[c]) THEN DictGet(d, columns[c]) ELSE NaN]]]

HeaderLine(df) == [kind |-> "header", cols |-> df.columns, cells |-> <<>>]

RowLine(df, i) ==
    LET row == df.rows[i]
    IN  [kind |-> "row", cols |-> df.columns,
         cells |-> [c \in 1..Len(df.columns) |-> to_csv_cell(df.columns[c], row[c])]]

\* data_df.to_csv(filepath, index=False, mode=..., header=...)
to_csv(df, f, mode, header) ==
    (IF mode = "w" THEN <<>> ELSE f)
        \o (IF header THEN <<HeaderLine(df)>> ELSE <<>>)
        \o [i \in 1..Len(df.rows) |-> RowLine(df, i)]

\* a save that writes the header on every call
save_to_csv_header_always(data_df, f, io_ok) ==
    IF data_df.rows = <<>> \/ data_df.columns = <<>>
    THEN [result |-> "False", file |-> f]
    ELSE IF ~io_ok THEN [result |-> "False", file |-> f]
         ELSE [result |-> "True",
               file |-> to_csv(data_df, f, IF f # <<>> THEN "a" ELSE "w", TRUE)]

\* a save that opens the file for writing on every call
save_to_csv_mode_w(data_df, f, io_ok) ==
    IF data_df.rows = <<>> \/ data_df.columns = <<>>
    THEN [result |-> "False", file |-> f]
    ELSE IF ~io_ok THEN [result |-> "False", file |-> f]
         ELSE [result |-> "True", file |-> to_csv(data_df, f, "w", TRUE)]

\* save_to_csv(data_df): io_ok is FALSE when to_csv cannot open the file and
\* raises.  Returns the call's outcome and the file after it.
save_to_csv(data_df, f, io_ok) ==
    IF data_df.rows = <<>> \/ data_df.columns = <<>>
    THEN [result |-> "False", file |-> f]
    ELSE LET file_exists == f # <<>>
         IN  IF ~io_ok THEN [result |-> "False", file |-> f]
             ELSE [result |-> "True",
                   file |-> to_csv(data_df, f,
                                   IF file_exists THEN "a" ELSE "w", ~file_exists)]

\* a save that writes an empty list as a file without rows
save_market_data_list_touching(market_data_list, f, io_ok) ==
    IF market_data_list = <<>>
    THEN [result |-> "True",
          file |-> f \o <<[kind |-> "header", cols |-> <<>>, cells |-> <<>>]>>]
    ELSE LET dicts == [i \in 1..Len(market_data_list) |-> to_dict(market_data_list[i])]
         IN  IF \E i \in DOMAIN dicts : dicts[i].raised # ""
             THEN [result |-> "ZeroDivisionError", file |-> f]
             ELSE save_to_csv(DataFrame(dicts), f, io_ok)

\* save_market_data_list(market_data_list): an exception of to_dict leaves the call
save_market_data_list(market_data_list, f, io_ok) ==
    IF market_data_list = <<>> THEN [result |-> "False", file |-> f]
    ELSE LET dicts == [i \in 1..Len(market_data_list) |-> to_dict(market_data_list[i])]
         IN  IF \E i \in DOMAIN dicts : dicts[i].raised # ""
             THEN [result |-> dicts[CHOOSE i \in DOMAIN dicts :
                                      /\ dicts[i].raised # ""
                                      /\ \A j \in 1..(i - 1) : dicts[j].raised = ""].raised,
                   file |-> f]
             ELSE save_to_csv(DataFrame(dicts), f, io_ok)

append_to_dataset(market_data_list, f, io_ok) ==
    save_market_data_list(market_data_list, f, io_ok)

DataRows(f) == SelectSeq(f, LAMBDA line : line.kind = "row")

(***************************************************************************)
(* Inputs: the configurations and the answers of the exchange.             *)
(***************************************************************************)
SeqsUpTo(S, n) == UNION {[1..k -> S] : k \in 0..n}

\* config.SYMBOLS and config.TIMEFRAMES as the environment may set them
Configs ==
    { [symbols |-> <<"BTC/USDT", "ETH/USDT">>, timeframes |-> <<"1h">>],
      [symbols |-> <<"ETH/USDT">>, timeframes |-> <<"1h", "1d">>],
      [symbols |-> <<"BTC/USDT", "BTC/USDT">>, timeframes |-> <<"1h">>] }

\* Python's order of the strings above: -1, 0 or 1 as a < b, a = b, a > b
StrRank == [s \in {"1d", "1h", "BTC/USDT", "ETH/USDT"} |->
              CASE s = "1d" -> 1 [] s = "1h" -> 2
                [] s = "BTC/USDT" -> 3 [] s = "ETH/USDT" -> 4]
StrCmp(a, b) == IF StrRank[a] < StrRank[b] THEN -1
                ELSE IF StrRank[a] = StrRank[b] THEN 0 ELSE 1

Timestamps == {1000, 2500}

\* one item of exchange.fetch_ohlcv: [timestamp, open, high, low, close, volume]
RawCandle(ts) ==
    IF ts = 1000
    THEN <<ts, Float(100, 1), Float(101, 1), Float(99, 1), Float(201, 2), Float(10, 1)>>
    ELSE <<ts, Float(201, 2), Float(102, 1), Float(100, 1), Float(101, 1), Float(5, 1)>>

OhlcvResponses ==
    {[ok |-> FALSE, rows |-> <<>>]}
        \cup {[ok |-> TRUE, rows |-> r] :
                r \in SeqsUpTo({RawCandle(ts) : ts \in Timestamps}, MaxCandles)}

\* exchange.fetch_order_book answers of a run: an error, an answer without
\* timestamp, a regular book and a book whose best bid price is zero
OrderBookResponses ==
    { [ok |-> FALSE, timestamp |-> <<>>, bids |-> <<>>, asks |-> <<>>],
      [ok |-> TRUE, timestamp |-> <<>>,
       bids |-> << <<Float(100, 1), Float(2, 1)>> >>,
       asks |-> << <<Float(201, 2), Float(3, 1)>> >>],
      [ok |-> TRUE, timestamp |-> <<3000>>,
       bids |-> << <<Float(100, 1), Float(2, 1)>> >>,
       asks |-> << <<Float(201, 2), Float(3, 1)>> >>],
      [ok |-> TRUE, timestamp |-> <<3000>>,
       bids |-> << <<Float(0, 1), Float(1, 1)>> >>,
       asks |-> << <<Float(201, 2), Float(3, 1)>> >>] }

(***************************************************************************)
(* DataCollector (src/main.py).                                            *)
(***************************************************************************)
\* a scan from the front of the list
FirstIndexOf(list, symbol, timeframe) ==
    LET hits == {i \in DOMAIN list :
                    list[i].ohlcv.symbol = symbol /\ list[i].ohlcv.timeframe = timeframe}
    IN  IF hits = {} THEN 0 ELSE CHOOSE i \in hits : \A j \in hits : i <= j

\* lines 114-118: the index the backward scan stops at, 0 when it finds none
LastIndexOf(list, symbol, timeframe) ==
    LET hits == {i \in DOMAIN list :
                    list[i].ohlcv.symbol = symbol /\ list[i].ohlcv.timeframe = timeframe}
    IN  IF hits = {} THEN 0 ELSE CHOOSE i \in hits : \A j \in hits : j <= i

\* an attachment to the last record of the list, whatever its symbol
attach_orderbook_any_symbol(list, symbol, tfs, k, orderbook) ==
    IF list = <<>> THEN list
    ELSE [list EXCEPT ![Len(list)].order_book_snapshot = orderbook]

\* lines 113-118: the loop over self.timeframes from position k on
RECURSIVE attach_orderbook(_, _, _, _, _)
attach_orderbook(list, symbol, tfs, k, orderbook) ==
    IF k > Len(tfs) THEN list
    ELSE LET i == LastIndexOf(list, symbol, tfs[k])
         IN  attach_orderbook(
                IF i = 0 THEN list
                ELSE [list EXCEPT ![i].order_book_snapshot = orderbook],
                symbol, tfs, k + 1, orderbook)

\* lines 56-65: collect_data is entered
EnterCollectData ==
    /\ pc' = "fetch"
    /\ si' = 1
    /\ ti' = 1
    /\ all_market_data' = <<>>
    /\ fetch_log' = <<>>
    /\ orderbook_log' = <<>>
    /\ handed' = <<>>
    /\ rows_given' = 0
    /\ UNCHANGED <<symbols, timeframes, result, file, md, data, series,
                   returned>>

\* lines 160-161: start() makes the first collection
Start ==
    /\ pc = "start"
    /\ EnterCollectData

\* lines 174-176: the scheduling loop calls collect_data again.  The loop is
\* followed until a run has created the dataset; appends to an existing
\* dataset are explored by StorageSpec.
RunPending ==
    /\ pc = "done"
    /\ file = <<>>
    /\ EnterCollectData

\* an iteration that leaves both loops when the fetch returns nothing
FetchPairStopsWhenEmpty ==
    /\ pc = "fetch"
    /\ \E response \in OhlcvResponses :
          LET symbol == symbols[si]
              timeframe == timeframes[ti]
              ohlcv_data == fetch_historical_ohlcv(symbol, timeframe, response)
          IN  /\ fetch_log' = Append(fetch_log,
                    [symbol |-> symbol, timeframe |-> timeframe,
                     ok |-> response.ok, ohlcv_data |-> ohlcv_data])
              /\ all_market_data' =
                    IF ohlcv_data = <<>> THEN all_market_data
                    ELSE all_market_data \o process_ohlcv_with_indicators(ohlcv_data)
              /\ IF ohlcv_data = <<>>
                 THEN ti' = ti /\ pc' = "save"
                 ELSE IF ti < Len(timeframes)
                      THEN ti' = ti + 1 /\ pc' = "fetch"
                      ELSE ti' = 1 /\ pc' = "orderbook"
    /\ UNCHANGED <<symbols, timeframes, si, handed, rows_given, result, file,
                   md, data, orderbook_log, series, returned>>

\* lines 68-105: one iteration of the timeframe loop
FetchPair ==
    /\ pc = "fetch"
    /\ \E response \in OhlcvResponses :
          LET symbol == symbols[si]
              timeframe == timeframes[ti]
              ohlcv_data == fetch_historical_ohlcv(symbol, timeframe, response)
          IN  /\ fetch_log' = Append(fetch_log,
                    [symbol |-> symbol, timeframe |-> timeframe,
                     ok |-> response.ok, ohlcv_data |-> ohlcv_data])
              /\ all_market_data' =
                    IF ohlcv_data = <<>> THEN all_market_data
                    ELSE all_market_data \o process_ohlcv_with_indicators(ohlcv_data)
    /\ IF ti < Len(timeframes)
       THEN ti' = ti + 1 /\ pc' = "fetch"
       ELSE ti' = 1 /\ pc' = "orderbook"
    /\ UNCHANGED <<symbols, timeframes, si, handed, rows_given, result, file,
                   md, data, orderbook_log, series, returned>>

\* an order-book step that drops the records of a symbol whose fetch failed
AttachOrderbookSkipsSymbol ==
    /\ pc = "orderbook"
    /\ \E response \in OrderBookResponses :
          LET orderbook == fetch_orderbook(symbols[si], response)
          IN  /\ orderbook_log' = Append(orderbook_log,
                    [symbol |-> symbols[si], orderbook |-> orderbook])
              /\ all_market_data' =
                    IF orderbook # <<>>
                    THEN attach_orderbook(all_market_data, symbols[si], timeframes,
                                          1, orderbook)
                    ELSE SelectSeq(all_market_data,
                                   LAMBDA m : m.ohlcv.symbol # symbols[si])
    /\ IF si < Len(symbols)
       THEN si' = si + 1 /\ pc' = "fetch"
       ELSE si' = si /\ pc' = "save"
    /\ UNCHANGED <<symbols, timeframes, ti, fetch_log, handed, rows_given,
                   result, file, md, data, series, returned>>

\* lines 107-118: the order book of the symbol, attached when there is one
AttachOrderbook ==
    /\ pc = "orderbook"
    /\ \E response \in OrderBookResponses :
          LET orderbook == fetch_orderbook(symbols[si], response)
          IN  /\ orderbook_log' = Append(orderbook_log,
                    [symbol |-> symbols[si], orderbook |-> orderbook])
              /\ all_market_data' =
                    IF orderbook # <<>>
                    THEN attach_orderbook(all_market_data, symbols[si], timeframes,
                                          1, orderbook)
                    ELSE all_market_data
    /\ IF si < Len(symbols)
       THEN si' = si + 1 /\ pc' = "fetch"
       ELSE si' = si /\ pc' = "save"
    /\ UNCHANGED <<symbols, timeframes, ti, fetch_log, handed, rows_given,
                   result, file, md, data, series, returned>>

\* a collect_data without its except clause: an exception of the sink leaves
\* collect_data and start()
SaveCollectedPropagates ==
    /\ pc = "save"
    /\ IF all_market_data # <<>>
       THEN \E io_ok \in BOOLEAN :
               LET out == append_to_dataset(all_market_data, file, io_ok)
               IN  /\ handed' = all_market_data
                   /\ rows_given' = Len(all_market_data)
                   /\ file' = out.file
                   /\ result' = out.result
                   /\ pc' = IF out.result \in {"True", "False"} THEN "done"
                            ELSE "crashed"
       ELSE /\ result' = "False"
            /\ pc' = "done"
            /\ UNCHANGED <<handed, rows_given, file>>
    /\ UNCHANGED <<symbols, timeframes, si, ti, all_market_data, fetch_log,
                   orderbook_log, md, data, series, returned>>

\* lines 123-147: the batch goes to the sink and collect_data returns
SaveCollected ==
    /\ pc = "save"
    /\ IF all_market_data # <<>>
       THEN \E io_ok \in BOOLEAN :
               LET out == append_to_dataset(all_market_data, file, io_ok)
               IN  /\ handed' = all_market_data
                   /\ rows_given' = Len(all_market_data)
                   /\ file' = out.file
                   /\ result' = IF out.result = "True" THEN "True" ELSE "False"
       ELSE /\ result' = "False"
            /\ UNCHANGED <<handed, rows_given, file>>
    /\ pc' = "done"
    /\ UNCHANGED <<symbols, timeframes, si, ti, all_market_data, fetch_log,
                   md, data, orderbook_log, series, returned>>

NoMarketData == <<>>

Init ==
    /\ \E c \in Configs : symbols = c.symbols /\ timeframes = c.timeframes
    /\ pc = "start"
    /\ si = 1
    /\ ti = 1
    /\ all_market_data = <<>>
    /\ fetch_log = <<>>
    /\ orderbook_log = <<>>
    /\ handed = <<>>
    /\ rows_given = 0
    /\ result = "none"
    /\ file = <<>>
    /\ md = NoMarketData
    /\ data = <<>>
    /\ series = <<>>
    /\ returned = <<>>

Next ==
    \/ Start
    \/ FetchPair
    \/ AttachOrderbook
    \/ SaveCollected
    \/ RunPending

Spec == Init /\ [][Next]_vars

(***************************************************************************)
(* The sink driven by any caller: StorageSpec calls append_to_dataset and  *)
(* save_to_csv with arbitrary arguments on one path.                       *)
(***************************************************************************)
SampleOhlcv == <<OHLCV(1000, Float(100, 1), Float(101, 1), Float(99, 1),
                        Float(201, 2), Float(10, 1), "BTC/USDT", "1h")>>

SampleBooks ==
    { OrderBook(3000, "BTC/USDT",
                <<OrderBookLevel(Float(100, 1), Float(2, 1))>>,
                <<OrderBookLevel(Float(201, 2), Float(3, 1))>>),
      OrderBook(3000, "BTC/USDT",
                <<OrderBookLevel(Float(0, 1), Float(1, 1))>>,
                <<OrderBookLevel(Float(201, 2), Float(3, 1))>>) }

\* records as the pipeline builds them: without a snapshot, or with one attached
SampleMarketData ==
    LET m == process_ohlcv_with_indicators(SampleOhlcv)[1]
    IN  {m} \cup {[m EXCEPT !.order_book_snapshot = <<ob>>] : ob \in SampleBooks}

\* the lists a caller passes to append_to_dataset
SampleBatches == SeqsUpTo(SampleMarketData, MaxBatch)

EmptyDataFrame == [columns |-> <<>>, rows |-> <<>>]

\* the frames a caller passes to save_to_csv: pd.DataFrame() or a frame of rows
SampleDataFrames ==
    {EmptyDataFrame}
        \cup {DataFrame(<<to_dict(m)>>) : m \in {x \in SampleMarketData : to_dict(x).raised = ""}}

CallAppendToDataset ==
    /\ pc \in {"storage", "append_to_dataset", "save_to_csv"}
    /\ Len(DataRows(file)) <= MaxFileRows
    /\ \E market_data_list \in SampleBatches, io_ok \in BOOLEAN :
          LET out == append_to_dataset(market_data_list, file, io_ok)
          IN  /\ rows_given' = Len(market_data_list)
              /\ file' = out.file
              /\ result' = out.result
    /\ pc' = "append_to_dataset"
    /\ UNCHANGED <<symbols, timeframes, si, ti, all_market_data, fetch_log,
                   handed, md, data, orderbook_log, series, returned>>

CallSaveToCsv ==
    /\ pc \in {"storage", "append_to_dataset", "save_to_csv"}
    /\ Len(DataRows(file)) <= MaxFileRows
    /\ \E data_df \in SampleDataFrames, io_ok \in BOOLEAN :
          LET out == save_to_csv(data_df, file, io_ok)
          IN  /\ rows_given' = Len(data_df.rows)
              /\ file' = out.file
              /\ result' = out.result
    /\ pc' = "save_to_csv"
    /\ UNCHANGED <<symbols, timeframes, si, ti, all_market_data, fetch_log,
                   handed, md, data, orderbook_log, series, returned>>

InitStorage ==
    /\ symbols = <<>>
    /\ timeframes = <<>>
    /\ pc = "storage"
    /\ si = 1
    /\ ti = 1
    /\ all_market_data = <<>>
    /\ fetch_log = <<>>
    /\ orderbook_log = <<>>
    /\ handed = <<>>
    /\ rows_given = 0
    /\ result = "none"
    /\ file = <<>>
    /\ md = NoMarketData
    /\ data = <<>>
    /\ series = <<>>
    /\ returned = <<>>

NextStorage ==
    \/ CallAppendToDataset
    \/ CallSaveToCsv

StorageSpec == InitStorage /\ [][NextStorage]_vars

(***************************************************************************)
(* The collector and a caller without rows: CollectorSpec is Spec with a   *)
(* caller that, once a run has returned, hands an empty list to            *)
(* append_to_dataset or an empty frame to save_to_csv.                     *)
(***************************************************************************)
CallAppendToDatasetEmpty ==
    /\ pc = "done"
    /\ \E io_ok \in BOOLEAN :
          LET out == append_to_dataset(<<>>, file, io_ok)
          IN  /\ file' = out.file
              /\ result' = out.result
    /\ rows_given' = 0
    /\ pc' = "append_to_dataset"
    /\ UNCHANGED <<symbols, timeframes, si, ti, all_market_data, fetch_log,
                   orderbook_log, handed, md, data, series, returned>>

CallSaveToCsvEmpty ==
    /\ pc = "done"
    /\ \E io_ok \in BOOLEAN :
          LET out == save_to_csv(EmptyDataFrame, file, io_ok)
          IN  /\ file' = out.file
              /\ result' = out.result
    /\ rows_given' = 0
    /\ pc' = "save_to_csv"
    /\ UNCHANGED <<symbols, timeframes, si, ti, all_market_data, fetch_log,
                   orderbook_log, handed, md, data, series, returned>>

NextCollector ==
    \/ Next
    \/ CallAppendToDatasetEmpty
    \/ CallSaveToCsvEmpty

CollectorSpec == Init /\ [][NextCollector]_vars

(***************************************************************************)
(* Flattening as a function: FlattenSpec draws a record and calls to_dict. *)
(***************************************************************************)
SampleLevels ==
    { OrderBookLevel(Float(0, 1), Float(1, 1)),
      OrderBookLevel(Float(100, 1), Float(2, 1)),
      OrderBookLevel(Float(201, 2), Float(3, 1)) }

\* indicator sets: synthesized by merge_data, computed on a one-candle series,
\* and one with values, zero among them
SampleIndicators ==
    LET synthesized == merge_data(SampleOhlcv[1], <<>>, <<>>).indicators
    IN  { synthesized,
          calculate_technical_indicators(SampleOhlcv)[1],
          [synthesized EXCEPT !.sma_20 = Float(201, 2), !.obv = Float(0, 1),
                              !.rsi_14 = NaN] }

FlattenInputs ==
    { merge_data(SampleOhlcv[1], <<ind>>, ob) :
        ind \in SampleIndicators,
        ob \in {<<>>} \cup
               { <<OrderBook(3000, "BTC/USDT", bids, asks)>> :
                    bids \in SeqsUpTo(SampleLevels, MaxLevels),
                    asks \in SeqsUpTo(SampleLevels, MaxLevels) } }

CallToDict ==
    /\ pc \in {"flatten", "flattened"}
    /\ Len(data) < MaxCalls
    /\ data' = Append(data, to_dict(md))
    /\ md' = to_dict_self(md)
    /\ pc' = "flattened"
    /\ UNCHANGED <<symbols, timeframes, si, ti, all_market_data, fetch_log,
                   handed, rows_given, result, file, orderbook_log,
                   series, returned>>

InitFlatten ==
    /\ symbols = <<>>
    /\ timeframes = <<>>
    /\ pc = "flatten"
    /\ si = 1
    /\ ti = 1
    /\ all_market_data = <<>>
    /\ fetch_log = <<>>
    /\ orderbook_log = <<>>
    /\ handed = <<>>
    /\ rows_given = 0
    /\ result = "none"
    /\ file = <<>>
    /\ md \in FlattenInputs
    /\ data = <<>>
    /\ series = <<>>
    /\ returned = <<>>

NextFlatten == CallToDict

FlattenSpec == InitFlatten /\ [][NextFlatten]_vars

(***************************************************************************)
(* The DataProcessor driven by any caller: ProcessorSpec draws a candle    *)
(* series of one (symbol, timeframe) and calls one method on it.  A series *)
(* has 1..MaxSeries candles; its timestamps ascend, descend, or repeat the *)
(* first one.  Every close is 100 except the close of the latest candle,   *)
(* so that the exponential averages stay short fractions.                  *)
(***************************************************************************)
SeriesShapes == {"ascending", "descending", "repeated"}

SeriesTimestamp(shape, n, i) ==
    CASE shape = "ascending" -> 1000 * i
      [] shape = "descending" -> 1000 * (n + 1 - i)
      [] shape = "repeated" -> 1000 * (IF i = 1 THEN 2 ELSE i)

SeriesCandle(shape, n, i, last_close, symbol, timeframe) ==
    LET latest == i = (IF shape = "descending" THEN 1 ELSE n)
    IN  OHLCV(SeriesTimestamp(shape, n, i), Float(100, 1),
              IF latest THEN Float(102, 1) ELSE Float(101, 1), Float(99, 1),
              IF latest THEN last_close ELSE Float(100, 1), Float(10, 1),
              symbol, timeframe)

SampleSeries ==
    { [i \in 1..n |-> SeriesCandle(shape, n, i, last_close, pair[1], pair[2])] :
        n \in 1..MaxSeries, shape \in SeriesShapes,
        last_close \in {Float(100, 1), Float(201, 2), Float(99, 1)},
        pair \in {<<"BTC/USDT", "1h">>, <<"ETH/USDT", "1d">>} }

CallCalculateTechnicalIndicators ==
    /\ pc = "processor"
    /\ returned' = calculate_technical_indicators(series)
    /\ pc' = "calculate_technical_indicators"
    /\ UNCHANGED <<symbols, timeframes, si, ti, all_market_data, fetch_log,
                   orderbook_log, handed, rows_given, result, file, md, data,
                   series>>

CallProcessOhlcvWithIndicators ==
    /\ pc = "processor"
    /\ returned' = process_ohlcv_with_indicators(series)
    /\ pc' = "process_ohlcv_with_indicators"
    /\ UNCHANGED <<symbols, timeframes, si, ti, all_market_data, fetch_log,
                   orderbook_log, handed, rows_given, result, file, md, data,
                   series>>

\* merge_data(ohlcv) or merge_data(ohlcv, orderbook=...) on the first candle
\* of the series
CallMergeData ==
    /\ pc = "processor"
    /\ \E orderbook \in {<<>>} \cup {<<ob>> : ob \in SampleBooks} :
          returned' = <<merge_data(series[1], <<>>, orderbook)>>
    /\ pc' = "merge_data"
    /\ UNCHANGED <<symbols, timeframes, si, ti, all_market_data, fetch_log,
                   orderbook_log, handed, rows_given, result, file, md, data,
                   series>>

\* merge_data(ohlcv, indicators) on the first candle of the series, with the
\* IndicatorSet computed for the earliest candle of the series
CallMergeDataWithIndicators ==
    /\ pc = "processor"
    /\ returned' = <<merge_data(series[1],
                                <<calculate_technical_indicators(series)[1]>>, <<>>)>>
    /\ pc' = "merge_data_with_indicators"
    /\ UNCHANGED <<symbols, timeframes, si, ti, all_market_data, fetch_log,
                   orderbook_log, handed, rows_given, result, file, md, data,
                   series>>

InitProcessor ==
    /\ symbols = <<>>
    /\ timeframes = <<>>
    /\ pc = "processor"
    /\ si = 1
    /\ ti = 1
    /\ all_market_data = <<>>
    /\ fetch_log = <<>>
    /\ orderbook_log = <<>>
    /\ handed = <<>>
    /\ rows_given = 0
    /\ result = "none"
    /\ file = <<>>
    /\ md = NoMarketData
    /\ data = <<>>
    /\ series \in SampleSeries
    /\ returned = <<>>

NextProcessor ==
    \/ CallCalculateTechnicalIndicators
    \/ CallProcessOhlcvWithIndicators
    \/ CallMergeData
    \/ CallMergeDataWithIndicators

ProcessorSpec == InitProcessor /\ [][NextProcessor]_vars

(***************************************************************************)
(* Claims about MarketData.to_dict, under FlattenSpec.                     *)
(***************************************************************************)
Called == data # <<>>
Returned == data # <<>> /\ data[1].raised = ""
HasSnapshot == md.order_book_snapshot # <<>>
Snapshot == md.order_book_snapshot[1]
BothSides == HasSnapshot /\ Snapshot.bids # <<>> /\ Snapshot.asks # <<>>

CandleColumns ==
    <<"timestamp", "datetime", "symbol", "timeframe",
      "open", "high", "low", "close", "volume">>
IndicatorColumns ==
    <<"sma_20", "sma_50", "sma_200", "ema_12", "ema_26", "rsi_14", "macd",
      "macd_signal", "macd_hist", "bb_upper", "bb_middle", "bb_lower", "atr_14", "obv">>
BestColumns ==
    <<"best_bid_price", "best_bid_amount", "best_ask_price", "best_ask_amount">>
SpreadColumns == <<"spread", "spread_percent">>

\* every indicator column of the row holds the value of the record's field
IndicatorsCopied(d) ==
    \A c \in Range(IndicatorColumns) : HasKey(d, c) /\ DictGet(d, c) = md.indicators[c]

\* C7 as stated: with an empty bids or asks list the best_* columns of that side
\* and the columns spread and spread_percent are not keys of the row.
C7_EmptySideOmitsColumns ==
    (Returned /\ HasSnapshot) =>
        /\ Snapshot.bids = <<>> =>
              ~HasKey(data[1], "best_bid_price") /\ ~HasKey(data[1], "best_bid_amount")
        /\ Snapshot.asks = <<>> =>
              ~HasKey(data[1], "best_ask_price") /\ ~HasKey(data[1], "best_ask_amount")
        /\ (Snapshot.bids = <<>> \/ Snapshot.asks = <<>>) =>
              ~HasKey(data[1], "spread") /\ ~HasKey(data[1], "spread_percent")

\* C7 amended: with an empty bids or asks list the best_* columns of that side
\* are keys of the row with the value None, and spread and spread_percent are
\* not keys of the row.
C7_EmptySideIsNone ==
    (Called /\ HasSnapshot /\ (Snapshot.bids = <<>> \/ Snapshot.asks = <<>>)) =>
        /\ data[1].raised = ""
        /\ \A c \in Range(BestColumns) : HasKey(data[1], c)
        /\ Snapshot.bids = <<>> =>
              /\ DictGet(data[1], "best_bid_price") = None
              /\ DictGet(data[1], "best_bid_amount") = None
        /\ Snapshot.asks = <<>> =>
              /\ DictGet(data[1], "best_ask_price") = None
              /\ DictGet(data[1], "best_ask_amount") = None
        /\ ~HasKey(data[1], "spread") /\ ~HasKey(data[1], "spread_percent")

C7_Witness ==
    /\ Returned /\ HasSnapshot
    /\ Snapshot.bids = <<>> /\ Snapshot.asks # <<>>
    /\ DictGet(data[1], "best_bid_price") = None

\* C8 as stated: with a best bid price of zero to_dict does not raise and the
\* row it returns has no spread_percent.
C8_ZeroBidDoesNotRaise ==
    (Called /\ BothSides /\ IsZero(Snapshot.bids[1].price)) =>
        data[1].raised = "" /\ ~HasKey(data[1], "spread_percent")

\* C9 as stated: the keys are the candle columns, then every indicator field,
\* then all six order-book columns exactly when the record has a snapshot;
\* an indicator that is None or NaN stays so.
C9_SixColumnsIffSnapshot ==
    Called =>
        /\ data[1].raised = ""
        /\ data[1].keys = CandleColumns \o IndicatorColumns
                            \o (IF HasSnapshot THEN BestColumns \o SpreadColumns ELSE <<>>)
        /\ IndicatorsCopied(data[1])

\* C9 amended: to_dict raises only for a snapshot with both sides and a zero
\* best bid price; otherwise the keys are the candle columns, then every
\* indicator field with the record's value (None and NaN kept), then the four
\* best_* columns exactly when the record has a snapshot, then spread and
\* spread_percent exactly when the snapshot has bids and asks.
C9_ColumnsBySnapshot ==
    Called =>
        IF BothSides /\ IsZero(Snapshot.bids[1].price)
        THEN data[1].raised = "ZeroDivisionError"
        ELSE /\ data[1].raised = ""
             /\ data[1].keys = CandleColumns \o IndicatorColumns
                                 \o (IF HasSnapshot THEN BestColumns ELSE <<>>)
                                 \o (IF BothSides THEN SpreadColumns ELSE <<>>)
             /\ IndicatorsCopied(data[1])
             /\ data[1].val[1] = md.ohlcv.timestamp
             /\ data[1].val[3] = md.ohlcv.symbol
             /\ data[1].val[9] = md.ohlcv.volume

C9_Witness ==
    /\ Returned /\ BothSides
    /\ md.indicators.sma_20 = None
    /\ DictGet(data[1], "sma_20") = None
    /\ Len(data[1].keys) = 29

\* C10: with bids, asks and a non-zero best bid price, spread is the first
\* ask's price minus the first bid's price and spread_percent is spread
\* divided by that bid price times 100 (bid 100.0, ask 100.5: 0.5 and 0.5).
C10_SpreadAndPercent ==
    (Called /\ BothSides /\ ~IsZero(Snapshot.bids[1].price)) =>
        /\ data[1].raised = ""
        /\ HasKey(data[1], "spread") /\ HasKey(data[1], "spread_percent")
        /\ LET bid == Snapshot.bids[1].price
               ask == Snapshot.asks[1].price
               spread == DictGet(data[1], "spread")
               percent == DictGet(data[1], "spread_percent")
           IN  /\ DictGet(data[1], "best_bid_price") = bid
               /\ DictGet(data[1], "best_ask_price") = ask
               /\ spread.tag = "float" /\ percent.tag = "float"
               \* spread = ask - bid
               /\ spread.num * (ask.den * bid.den)
                    = spread.den * (ask.num * bid.den - bid.num * ask.den)
               \* percent = spread / bid * 100
               /\ percent.num * (spread.den * bid.num)
                    = percent.den * (100 * spread.num * bid.den)
               /\ (bid = Float(100, 1) /\ ask = Float(201, 2)) =>
                    spread = Float(1, 2) /\ percent = Float(1, 2)

C10_Witness ==
    /\ Returned /\ BothSides
    /\ Snapshot.bids[1].price = Float(100, 1)
    /\ Snapshot.asks[1].price = Float(201, 2)
    /\ DictGet(data[1], "spread_percent") = Float(1, 2)

(***************************************************************************)
(* Claims about the dataset file, under StorageSpec.                       *)
(***************************************************************************)
\* C4 as stated: every data row of the file has exactly the columns of the
\* file's header row, whatever batches were appended.
C4_RowsHaveHeaderColumns ==
    file # <<>> =>
        \A i \in 2..Len(file) : file[i].kind = "row" => file[i].cols = file[1].cols

\* C5: once a call with rows has created the file, the file holds exactly one
\* header row, as its first line, followed by data rows only; the header lists
\* the columns of the rows written with it.
C5_OneHeaderFirst ==
    file # <<>> =>
        /\ Len(file) >= 2
        /\ file[1].kind = "header"
        /\ \A i \in 2..Len(file) : file[i].kind = "row"
        /\ file[2].cols = file[1].cols

C5_Witness ==
    /\ pc \in {"append_to_dataset", "save_to_csv"}
    /\ result = "True"
    /\ rows_given > 0
    /\ Len(DataRows(file)) > rows_given

\* C6: a call of the sink, whether it succeeds, fails or is given no rows,
\* leaves every line the file held before it in place, unchanged and in order,
\* as a prefix of the file.
C6_AppendOnly ==
    [][/\ Len(file') >= Len(file)
       /\ SubSeq(file', 1, Len(file)) = file
       /\ (rows_given' = 0 \/ result' # "True") => file' = file]_vars

C6_Witness ==
    /\ pc = "append_to_dataset"
    /\ result = "False"
    /\ rows_given > 0
    /\ Len(DataRows(file)) > 0

(***************************************************************************)
(* Claims about a collect_data run, under Spec.                            *)
(***************************************************************************)
PairIndices(symbol, timeframe) ==
    {i \in DOMAIN all_market_data :
        /\ all_market_data[i].ohlcv.symbol = symbol
        /\ all_market_data[i].ohlcv.timeframe = timeframe}

WithSnapshot(symbol, timeframe) ==
    {i \in PairIndices(symbol, timeframe) : all_market_data[i].order_book_snapshot # <<>>}

DistinctSymbols == \A i, j \in DOMAIN symbols : symbols[i] = symbols[j] => i = j

\* the records accumulated for the pair are in ascending timestamp order
PairAscending(symbol, timeframe) ==
    \A i, j \in PairIndices(symbol, timeframe) :
        i < j => all_market_data[i].ohlcv.timestamp <= all_market_data[j].ohlcv.timestamp

\* C1 as stated: for every (symbol, timeframe) at most one accumulated record
\* carries an order-book snapshot, and it has the maximum timestamp among the
\* records accumulated for the pair.
C1_SnapshotOnMaxTimestamp ==
    \A s \in Range(symbols), tf \in Range(timeframes) :
        /\ Cardinality(WithSnapshot(s, tf)) <= 1
        /\ \A i \in WithSnapshot(s, tf), j \in PairIndices(s, tf) :
              all_market_data[j].ohlcv.timestamp <= all_market_data[i].ohlcv.timestamp

\* C1 amended: when the configured symbols are pairwise distinct, for every
\* (symbol, timeframe) at most one accumulated record carries an order-book
\* snapshot, and it is the record accumulated last for the pair; it has the
\* maximum timestamp when the pair's records were accumulated in ascending
\* timestamp order.
C1_SnapshotOnLastRecord ==
    DistinctSymbols =>
        \A s \in Range(symbols), tf \in Range(timeframes) :
            /\ Cardinality(WithSnapshot(s, tf)) <= 1
            /\ \A i \in WithSnapshot(s, tf), j \in PairIndices(s, tf) :
                  /\ j <= i
                  /\ PairAscending(s, tf) =>
                        all_market_data[j].ohlcv.timestamp
                            <= all_market_data[i].ohlcv.timestamp

C1_Witness ==
    /\ DistinctSymbols
    /\ Len(timeframes) = 2
    /\ \A tf \in Range(timeframes) :
          /\ Cardinality(PairIndices(symbols[1], tf)) = 2
          /\ Cardinality(WithSnapshot(symbols[1], tf)) = 1

\* the candles of every fetch of the run, in the order of the fetches
RECURSIVE FetchedCandles(_)
FetchedCandles(k) ==
    IF k = 0 THEN <<>> ELSE FetchedCandles(k - 1) \o fetch_log[k].ohlcv_data

\* C2: a run fetches every configured pair in turn, whether or not an earlier
\* fetch failed or came back empty, and the batch handed to the sink holds the
\* records of every fetched candle, in the order of the fetches.
C2_FailedFetchSkipsOnlyItsPair ==
    (pc = "done") =>
        /\ Len(fetch_log) = Len(symbols) * Len(timeframes)
        /\ \A k \in DOMAIN fetch_log :
              /\ fetch_log[k].symbol = symbols[((k - 1) \div Len(timeframes)) + 1]
              /\ fetch_log[k].timeframe = timeframes[((k - 1) % Len(timeframes)) + 1]
        /\ LET candles == FetchedCandles(Len(fetch_log))
           IN  /\ Len(handed) = Len(candles)
               /\ \A i \in DOMAIN candles : handed[i].ohlcv = candles[i]
               /\ candles # <<>> => rows_given = Len(candles)

C2_Witness ==
    /\ pc = "done"
    /\ result = "True"
    /\ Len(fetch_log) = 2
    /\ ~fetch_log[1].ok
    /\ Len(fetch_log[2].ohlcv_data) = 2
    /\ Len(DataRows(file)) = 2

\* the fetches of the run returned their candles in ascending timestamp order
FetchesAscending ==
    \A k \in DOMAIN fetch_log :
        \A i, j \in DOMAIN fetch_log[k].ohlcv_data :
            i < j => fetch_log[k].ohlcv_data[i].timestamp
                        < fetch_log[k].ohlcv_data[j].timestamp

\* row a comes before or with row b in the order (symbol, timeframe, timestamp)
RowOrdered(a, b) ==
    \/ StrCmp(a.symbol, b.symbol) < 0
    \/ /\ StrCmp(a.symbol, b.symbol) = 0
       /\ \/ StrCmp(a.timeframe, b.timeframe) < 0
          \/ /\ StrCmp(a.timeframe, b.timeframe) = 0
             /\ a.timestamp <= b.timestamp

\* C3 as stated, for fetches that return ascending series: the rows handed to
\* the sink are ordered by symbol, then timeframe, then timestamp.
C3_BatchSorted ==
    (pc = "done" /\ FetchesAscending) =>
        \A i, j \in DOMAIN handed :
            i < j => RowOrdered(handed[i].ohlcv, handed[j].ohlcv)

(***************************************************************************)
(* Claims about the DataProcessor, under ProcessorSpec.                    *)
(***************************************************************************)
\* the window of each indicator as calculate_indicators passes it
IndicatorWindows ==
    [sma_20 |-> 20, sma_50 |-> 50, sma_200 |-> 200, ema_12 |-> 12, ema_26 |-> 26,
     rsi_14 |-> 14, atr_14 |-> 14, bb_upper |-> 20, bb_middle |-> 20,
     bb_lower |-> 20]

\* C11: for a non-empty series shorter than an indicator's window,
\* calculate_technical_indicators returns a list (it does not raise) and the
\* indicator is absent, None or NaN and never zero, in the IndicatorSet of
\* every element of the series
C11_ShortSeriesAbsent ==
    pc = "calculate_technical_indicators" =>
        /\ Len(returned) = Len(series)
        /\ \A f \in DOMAIN IndicatorWindows :
              Len(series) < IndicatorWindows[f] =>
                  \A i \in DOMAIN returned :
                      IsNull(returned[i][f]) /\ ~IsZero(returned[i][f])

\* a series of 13 candles: shorter than the window of atr_14, which is absent
\* on its last element, while ema_12 has a value there
C11_Witness ==
    /\ pc = "calculate_technical_indicators"
    /\ Len(series) = 13
    /\ IsNull(returned[13].atr_14)
    /\ IsNull(returned[13].sma_20)
    /\ IsNumber(returned[13].ema_12)

\* the key of a Candle or an IndicatorSet
Key(x) == <<x.symbol, x.timeframe, x.timestamp>>

NonDecreasing(list) ==
    \A i \in 1..(Len(list) - 1) : list[i].timestamp <= list[i + 1].timestamp

\* C12: for a non-empty series of one (symbol, timeframe),
\* calculate_technical_indicators returns as many IndicatorSets as the series
\* has candles, every key being carried by as many IndicatorSets as candles;
\* for a series in timestamp order the i-th IndicatorSet carries the key of
\* the i-th candle
C12_OneIndicatorSetPerCandle ==
    pc = "calculate_technical_indicators" =>
        /\ Len(returned) = Len(series)
        /\ \A c \in DOMAIN series :
              Cardinality({i \in DOMAIN returned : Key(returned[i]) = Key(series[c])})
                  = Cardinality({i \in DOMAIN series : Key(series[i]) = Key(series[c])})
        /\ NonDecreasing(series) =>
              \A i \in DOMAIN series : Key(returned[i]) = Key(series[i])

\* a series handed over latest candle first: the IndicatorSets come back in
\* timestamp order, one for each candle
C12_Witness ==
    /\ pc = "calculate_technical_indicators"
    /\ Len(series) >= 3
    /\ series[1].timestamp > series[2].timestamp
    /\ Len(returned) = Len(series)
    /\ Key(returned[1]) = Key(series[Len(series)])

\* C13: every record process_ohlcv_with_indicators builds, and every record
\* merge_data builds without an indicator set, has an IndicatorSet with the
\* key of its candle; the set merge_data synthesizes has every indicator
\* field absent
C13_IndicatorSetKeyedToCandle ==
    /\ pc = "process_ohlcv_with_indicators" =>
          /\ Len(returned) = Len(series)
          /\ \A i \in DOMAIN series :
                /\ returned[i].ohlcv = series[i]
                /\ Key(returned[i].indicators) = Key(series[i])
    /\ pc = "merge_data" =>
          /\ Len(returned) = 1
          /\ returned[1].ohlcv = series[1]
          /\ Key(returned[1].indicators) = Key(series[1])
          /\ returned[1].indicators.datetime = series[1].datetime
          /\ \A i \in DOMAIN IndicatorFields :
                returned[1].indicators[IndicatorFields[i]] = None

\* merge_data was called without an indicator set and with an order book
C13_Witness ==
    /\ pc = "merge_data"
    /\ returned[1].order_book_snapshot # <<>>
    /\ Key(returned[1].indicators) = Key(series[1])
    /\ returned[1].indicators.obv = None

(***************************************************************************)
(* Claims about the run's error handling, under Spec.                      *)
(***************************************************************************)
\* the sink was given the batch of this run and the dataset is still absent:
\* a run starts without the dataset, so the sink wrote nothing
SinkFailed == rows_given > 0 /\ file = <<>>

\* C14: when the sink fails to write the batch (append_to_dataset returns
\* False or raises), collect_data returns False and does not raise, and the
\* scheduling loop can invoke collect_data again
C14_SinkFailureReturnsFalse ==
    SinkFailed =>
        /\ pc = "done"
        /\ result = "False"
        /\ ENABLED RunPending

\* the batch held a record whose flattening raises, and collect_data returned
C14_Witness ==
    /\ SinkFailed
    /\ \E i \in DOMAIN handed : to_dict(handed[i]).raised # ""
    /\ pc = "done"
    /\ result = "False"

OrderbookStep == pc = "orderbook" /\ Len(orderbook_log') = Len(orderbook_log) + 1
Fetched == orderbook_log'[Len(orderbook_log')].orderbook

\* C16: when the order-book fetch of a symbol returns no snapshot, the step
\* leaves the accumulated list as it is (no record gets a snapshot, none is
\* removed) and goes on to the next symbol, or to the save after the last
\* one; no record of a symbol that is configured once and whose fetch failed
\* has a snapshot; the whole list is handed to the sink, and a successful
\* sink wrote one row for each record
C16_FailedOrderbookFetchContinues ==
    /\ [][(OrderbookStep /\ Fetched = <<>>) =>
            /\ all_market_data' = all_market_data
            /\ si < Len(symbols) => (pc' = "fetch" /\ si' = si + 1 /\ ti' = 1)
            /\ si = Len(symbols) => pc' = "save"]_vars
    /\ [](\A k \in DOMAIN orderbook_log :
            (/\ orderbook_log[k].orderbook = <<>>
             /\ Cardinality({j \in DOMAIN symbols :
                                symbols[j] = orderbook_log[k].symbol}) = 1)
            => \A i \in DOMAIN all_market_data :
                  all_market_data[i].ohlcv.symbol = orderbook_log[k].symbol
                      => all_market_data[i].order_book_snapshot = <<>>)
    /\ []((pc = "done" /\ all_market_data # <<>>) =>
            /\ handed = all_market_data
            /\ result = "True" => Len(DataRows(file)) = Len(all_market_data))

\* the order book of the first symbol failed, that of the second did not:
\* the records of both were written, the second symbol's with a snapshot
C16_Witness ==
    /\ pc = "done"
    /\ result = "True"
    /\ Len(orderbook_log) = 2
    /\ orderbook_log[1].orderbook = <<>>
    /\ orderbook_log[2].orderbook # <<>>
    /\ orderbook_log[1].symbol # orderbook_log[2].symbol
    /\ \E i \in DOMAIN handed :
          /\ handed[i].ohlcv.symbol = orderbook_log[1].symbol
          /\ handed[i].order_book_snapshot = <<>>
    /\ \E i \in DOMAIN handed :
          /\ handed[i].ohlcv.symbol = orderbook_log[2].symbol
          /\ handed[i].order_book_snapshot # <<>>
    /\ Len(DataRows(file)) = Len(handed)

\* what the order-book step of symbol S may change: the order-book field of
\* records of S, to the snapshot fetched for S, and nothing else
AttachmentFrame ==
    OrderbookStep =>
        /\ Len(all_market_data') = Len(all_market_data)
        /\ \A i \in DOMAIN all_market_data :
              /\ all_market_data'[i].ohlcv = all_market_data[i].ohlcv
              /\ all_market_data'[i].indicators = all_market_data[i].indicators
              /\ all_market_data'[i].order_book_snapshot
                     # all_market_data[i].order_book_snapshot
                 => /\ all_market_data[i].ohlcv.symbol = symbols[si]
                    /\ Fetched # <<>>
                    /\ all_market_data'[i].order_book_snapshot = Fetched

\* within a run, a record that has a snapshot keeps it
SnapshotKept ==
    pc \in {"fetch", "orderbook", "save"} =>
        \A i \in DOMAIN all_market_data :
            all_market_data[i].order_book_snapshot # <<>> =>
                /\ i \in DOMAIN all_market_data'
                /\ all_market_data'[i].order_book_snapshot
                      = all_market_data[i].order_book_snapshot

\* C17 as stated: the frame of the order-book step, and a snapshot once set
\* is never changed again in the run
C17_AttachmentFrameSetOnce ==
    [][AttachmentFrame /\ SnapshotKept]_vars

\* C17, amended: the frame of the order-book step holds in every run; a
\* snapshot once set is never changed again in a run whose configured
\* symbols are pairwise distinct
C17_AttachmentFrame ==
    [][AttachmentFrame /\ (DistinctSymbols => SnapshotKept)]_vars

\* after the order-book steps of two distinct symbols: a record of the first
\* holds the first snapshot, a record of the second holds the second, which
\* differs from the first
C17_Witness ==
    /\ DistinctSymbols
    /\ Len(orderbook_log) = 2
    /\ orderbook_log[1].orderbook # <<>>
    /\ orderbook_log[2].orderbook # <<>>
    /\ orderbook_log[1].orderbook # orderbook_log[2].orderbook
    /\ \E i, j \in DOMAIN all_market_data :
          /\ all_market_data[i].ohlcv.symbol = orderbook_log[1].symbol
          /\ all_market_data[i].order_book_snapshot = orderbook_log[1].orderbook
          /\ all_market_data[j].ohlcv.symbol = orderbook_log[2].symbol
          /\ all_market_data[j].order_book_snapshot = orderbook_log[2].orderbook

(***************************************************************************)
(* Claims about empty data, under CollectorSpec.                           *)
(***************************************************************************)
\* every pair of the run has been fetched and none yielded a candle
AllFetchesEmpty ==
    /\ Len(fetch_log) = Len(symbols) * Len(timeframes)
    /\ \A k \in DOMAIN fetch_log : fetch_log[k].ohlcv_data = <<>>

\* C18: when every configured pair yields no candles, collect_data returns
\* False and the sink is not invoked (it is given no list and the file stays
\* as it was); a call of append_to_dataset with an empty list, or of
\* save_to_csv with an empty frame, returns False and leaves the file as it
\* was, absent or not
C18_NoDataReturnsFalse ==
    /\ [][(pc = "save" /\ AllFetchesEmpty) =>
            /\ pc' = "done"
            /\ result' = "False"
            /\ handed' = <<>>
            /\ rows_given' = 0
            /\ file' = file]_vars
    /\ [][(pc = "done" /\ pc' \in {"append_to_dataset", "save_to_csv"}) =>
            /\ result' = "False"
            /\ file' = file]_vars

\* a run in which no pair yielded a candle has returned False, and a caller
\* then appended an empty list: the dataset file is still absent
C18_Witness ==
    /\ pc = "append_to_dataset"
    /\ AllFetchesEmpty
    /\ handed = <<>>
    /\ result = "False"
    /\ file = <<>>

====
